---- MODULE Spec2Model ----
(***************************************************************************)
(* Modular bond-graph analysis of the E. coli core model.                  *)
(*                                                                         *)
(* Two notebooks (ModularEcoli and EcoliPPP) are modelled as programs: a   *)
(* sequence of code cells run by a Jupyter kernel.  The state is the       *)
(* kernel namespace (sm, s0, s, sc, sp, ...), the generated module files,  *)
(* the import cache and the output of the cell that ran last.  The         *)
(* library calls (CobraExtract, stoichBondGraph, stoich, modularBondGraph) *)
(* are operators.  The outputs saved in the notebooks are kept as data     *)
(* (Latex<n>, Stdout<n>) and compared with what the model computes.        *)
(***************************************************************************)
EXTENDS Integers, Sequences, FiniteSets, TLC

(* A reaction of the CobraPy model: coefficient c of a side stands for c/den. *)
Rxn(n, l, r, d) == [name |-> n, lhs |-> l, rhs |-> r, den |-> d]

(* A typeset reaction \ch{ lhs &<>[ name ] rhs }: sides are <<coefficient, species>>. *)
Eqn(n, l, r) == [name |-> n, lhs |-> l, rhs |-> r]

cobra_reaction ==
    << "ACONTA", "ACONTB", "AKGDH", "ATPS4R", "CS", "CYTBD", "ENO", "FBA", "FBP", "FRD7", "FUM", "G6PDH2R", "GAPD", "GLCPTS", "GND", "ICDHYR", "MDH", "NADH16", "NADTRHD", "PDH", "PFK", "PFL", "PGI", "PGK", "PGL", "PGM", "PYK", "RPE", "RPI", "SUCDI", "SUCOAS", "TALA", "TKT1", "TKT2", "TPI" >>

cobra_species ==
    << "13DPG", "2PG", "3PG", "6PGC", "6PGL", "ACCOA", "ACON", "ADP", "AKG", "ATP", "CIT", "CO2", "COA", "DHAP", "E4P", "F6P", "FDP", "FOR", "FUM", "G3P", "G6P", "GLCD_E", "H", "H2O", "H_E", "ICIT", "MALL", "NAD", "NADH", "NADP", "NADPH", "O2", "OAA", "PEP", "PI", "PYR", "Q8", "Q8H2", "R5P", "RU5PD", "S7P", "SUCC", "SUCCOA", "XU5PD" >>

textbook ==
    << Rxn("ACONTA", <<<<1, "CIT">>>>, <<<<1, "ACON">>, <<1, "H2O">>>>, 1),
       Rxn("ACONTB", <<<<1, "ACON">>, <<1, "H2O">>>>, <<<<1, "ICIT">>>>, 1),
       Rxn("AKGDH", <<<<1, "AKG">>, <<1, "COA">>, <<1, "NAD">>>>, <<<<1, "CO2">>, <<1, "NADH">>, <<1, "SUCCOA">>>>, 1),
       Rxn("ATPS4R", <<<<1, "ADP">>, <<4, "H_E">>, <<1, "PI">>>>, <<<<1, "ATP">>, <<3, "H">>, <<1, "H2O">>>>, 1),
       Rxn("CS", <<<<1, "ACCOA">>, <<1, "H2O">>, <<1, "OAA">>>>, <<<<1, "CIT">>, <<1, "COA">>, <<1, "H">>>>, 1),
       Rxn("CYTBD", <<<<4, "H">>, <<1, "O2">>, <<2, "Q8H2">>>>, <<<<2, "H2O">>, <<4, "H_E">>, <<2, "Q8">>>>, 2),
       Rxn("ENO", <<<<1, "2PG">>>>, <<<<1, "H2O">>, <<1, "PEP">>>>, 1),
       Rxn("FBA", <<<<1, "FDP">>>>, <<<<1, "DHAP">>, <<1, "G3P">>>>, 1),
       Rxn("FBP", <<<<1, "FDP">>, <<1, "H2O">>>>, <<<<1, "F6P">>, <<1, "PI">>>>, 1),
       Rxn("FRD7", <<<<1, "FUM">>, <<1, "Q8H2">>>>, <<<<1, "Q8">>, <<1, "SUCC">>>>, 1),
       Rxn("FUM", <<<<1, "FUM">>, <<1, "H2O">>>>, <<<<1, "MALL">>>>, 1),
       Rxn("G6PDH2R", <<<<1, "G6P">>, <<1, "NADP">>>>, <<<<1, "6PGL">>, <<1, "H">>, <<1, "NADPH">>>>, 1),
       Rxn("GAPD", <<<<1, "G3P">>, <<1, "NAD">>, <<1, "PI">>>>, <<<<1, "13DPG">>, <<1, "H">>, <<1, "NADH">>>>, 1),
       Rxn("GLCPTS", <<<<1, "GLCD_E">>, <<1, "PEP">>>>, <<<<1, "G6P">>, <<1, "PYR">>>>, 1),
       Rxn("GND", <<<<1, "6PGC">>, <<1, "NADP">>>>, <<<<1, "CO2">>, <<1, "NADPH">>, <<1, "RU5PD">>>>, 1),
       Rxn("ICDHYR", <<<<1, "ICIT">>, <<1, "NADP">>>>, <<<<1, "AKG">>, <<1, "CO2">>, <<1, "NADPH">>>>, 1),
       Rxn("MDH", <<<<1, "MALL">>, <<1, "NAD">>>>, <<<<1, "H">>, <<1, "NADH">>, <<1, "OAA">>>>, 1),
       Rxn("NADH16", <<<<4, "H">>, <<1, "NADH">>, <<1, "Q8">>>>, <<<<3, "H_E">>, <<1, "NAD">>, <<1, "Q8H2">>>>, 1),
       Rxn("NADTRHD", <<<<1, "NAD">>, <<1, "NADPH">>>>, <<<<1, "NADH">>, <<1, "NADP">>>>, 1),
       Rxn("PDH", <<<<1, "COA">>, <<1, "NAD">>, <<1, "PYR">>>>, <<<<1, "ACCOA">>, <<1, "CO2">>, <<1, "NADH">>>>, 1),
       Rxn("PFK", <<<<1, "ATP">>, <<1, "F6P">>>>, <<<<1, "ADP">>, <<1, "FDP">>, <<1, "H">>>>, 1),
       Rxn("PFL", <<<<1, "COA">>, <<1, "PYR">>>>, <<<<1, "ACCOA">>, <<1, "FOR">>>>, 1),
       Rxn("PGI", <<<<1, "G6P">>>>, <<<<1, "F6P">>>>, 1),
       Rxn("PGK", <<<<1, "3PG">>, <<1, "ATP">>>>, <<<<1, "13DPG">>, <<1, "ADP">>>>, 1),
       Rxn("PGL", <<<<1, "6PGL">>, <<1, "H2O">>>>, <<<<1, "6PGC">>, <<1, "H">>>>, 1),
       Rxn("PGM", <<<<1, "2PG">>>>, <<<<1, "3PG">>>>, 1),
       Rxn("PYK", <<<<1, "ADP">>, <<1, "H">>, <<1, "PEP">>>>, <<<<1, "ATP">>, <<1, "PYR">>>>, 1),
       Rxn("RPE", <<<<1, "RU5PD">>>>, <<<<1, "XU5PD">>>>, 1),
       Rxn("RPI", <<<<1, "R5P">>>>, <<<<1, "RU5PD">>>>, 1),
       Rxn("SUCDI", <<<<1, "Q8">>, <<1, "SUCC">>>>, <<<<1, "FUM">>, <<1, "Q8H2">>>>, 1),
       Rxn("SUCOAS", <<<<1, "ATP">>, <<1, "COA">>, <<1, "SUCC">>>>, <<<<1, "ADP">>, <<1, "PI">>, <<1, "SUCCOA">>>>, 1),
       Rxn("TALA", <<<<1, "G3P">>, <<1, "S7P">>>>, <<<<1, "E4P">>, <<1, "F6P">>>>, 1),
       Rxn("TKT1", <<<<1, "R5P">>, <<1, "XU5PD">>>>, <<<<1, "G3P">>, <<1, "S7P">>>>, 1),
       Rxn("TKT2", <<<<1, "E4P">>, <<1, "XU5PD">>>>, <<<<1, "F6P">>, <<1, "G3P">>>>, 1),
       Rxn("TPI", <<<<1, "DHAP">>>>, <<<<1, "G3P">>>>, 1) >>

Latex4 ==
    << Eqn("GLCPTS", <<<<1, "GLCD_E">>, <<1, "PEP">>>>, <<<<1, "G6P">>, <<1, "PYR">>>>),
       Eqn("PGI", <<<<1, "G6P">>>>, <<<<1, "F6P">>>>),
       Eqn("PFK", <<<<1, "ATP">>, <<1, "F6P">>>>, <<<<1, "ADP">>, <<1, "FDP">>, <<1, "H">>>>),
       Eqn("FBP", <<<<1, "FDP">>, <<1, "H2O">>>>, <<<<1, "F6P">>, <<1, "PI">>>>),
       Eqn("FBA", <<<<1, "FDP">>>>, <<<<1, "DHAP">>, <<1, "G3P">>>>),
       Eqn("TPI", <<<<1, "DHAP">>>>, <<<<1, "G3P">>>>),
       Eqn("GAPD", <<<<1, "G3P">>, <<1, "NAD">>, <<1, "PI">>>>, <<<<1, "13DPG">>, <<1, "H">>, <<1, "NADH">>>>),
       Eqn("PGK", <<<<1, "13DPG">>, <<1, "ADP">>>>, <<<<1, "3PG">>, <<1, "ATP">>>>),
       Eqn("PGM", <<<<1, "3PG">>>>, <<<<1, "2PG">>>>),
       Eqn("ENO", <<<<1, "2PG">>>>, <<<<1, "H2O">>, <<1, "PEP">>>>),
       Eqn("PYK", <<<<1, "ADP">>, <<1, "H">>, <<1, "PEP">>>>, <<<<1, "ATP">>, <<1, "PYR">>>>) >>

Latex7 ==
    << Eqn("CS", <<<<1, "ACCOA">>, <<1, "H2O">>, <<1, "OAA">>>>, <<<<1, "CIT">>, <<1, "COA">>, <<1, "H">>>>),
       Eqn("ACONTA", <<<<1, "CIT">>>>, <<<<1, "ACON">>, <<1, "H2O">>>>),
       Eqn("ACONTB", <<<<1, "ACON">>, <<1, "H2O">>>>, <<<<1, "ICIT">>>>),
       Eqn("ICDHYR", <<<<1, "ICIT">>, <<1, "NADP">>>>, <<<<1, "AKG">>, <<1, "CO2">>, <<1, "NADPH">>>>),
       Eqn("AKGDH", <<<<1, "AKG">>, <<1, "COA">>, <<1, "NAD">>>>, <<<<1, "CO2">>, <<1, "NADH">>, <<1, "SUCCOA">>>>),
       Eqn("SUCOAS", <<<<1, "ADP">>, <<1, "PI">>, <<1, "SUCCOA">>>>, <<<<1, "ATP">>, <<1, "COA">>, <<1, "SUCC">>>>),
       Eqn("FRD7", <<<<1, "Q8">>, <<1, "SUCC">>>>, <<<<1, "FUM">>, <<1, "Q8H2">>>>),
       Eqn("SUCDI", <<<<1, "Q8">>, <<1, "SUCC">>>>, <<<<1, "FUM">>, <<1, "Q8H2">>>>),
       Eqn("FUM", <<<<1, "FUM">>, <<1, "H2O">>>>, <<<<1, "MALL">>>>),
       Eqn("MDH", <<<<1, "MALL">>, <<1, "NAD">>>>, <<<<1, "H">>, <<1, "NADH">>, <<1, "OAA">>>>),
       Eqn("NADTRHD", <<<<1, "NAD">>, <<1, "NADPH">>>>, <<<<1, "NADH">>, <<1, "NADP">>>>) >>

Latex12 ==
    << Eqn("CS", <<<<1, "ACCOA">>, <<1, "H2O">>, <<1, "OAA">>>>, <<<<1, "CIT">>, <<1, "COA">>, <<1, "H">>>>),
       Eqn("ACONTA", <<<<1, "CIT">>>>, <<<<1, "ACON">>, <<1, "H2O">>>>),
       Eqn("ACONTB", <<<<1, "ACON">>, <<1, "H2O">>>>, <<<<1, "ICIT">>>>),
       Eqn("ICDHYR", <<<<1, "ICIT">>, <<1, "NADP">>>>, <<<<1, "AKG">>, <<1, "CO2">>, <<1, "NADPH">>>>),
       Eqn("AKGDH", <<<<1, "AKG">>, <<1, "COA">>, <<1, "NAD">>>>, <<<<1, "CO2">>, <<1, "NADH">>, <<1, "SUCCOA">>>>),
       Eqn("SUCOAS", <<<<1, "ADP">>, <<1, "PI">>, <<1, "SUCCOA">>>>, <<<<1, "ATP">>, <<1, "COA">>, <<1, "SUCC">>>>),
       Eqn("FRD7", <<<<1, "Q8">>, <<1, "SUCC">>>>, <<<<1, "FUM">>, <<1, "Q8H2">>>>),
       Eqn("SUCDI", <<<<1, "Q8">>, <<1, "SUCC">>>>, <<<<1, "FUM">>, <<1, "Q8H2">>>>),
       Eqn("FUM", <<<<1, "FUM">>, <<1, "H2O">>>>, <<<<1, "MALL">>>>),
       Eqn("MDH", <<<<1, "MALL">>, <<1, "NAD">>>>, <<<<1, "H">>, <<1, "NADH">>, <<1, "OAA">>>>),
       Eqn("NADTRHD", <<<<1, "NAD">>, <<1, "NADPH">>>>, <<<<1, "NADH">>, <<1, "NADP">>>>),
       Eqn("PDH", <<<<1, "COA">>, <<1, "NAD">>, <<1, "PYR">>>>, <<<<1, "ACCOA">>, <<1, "CO2">>, <<1, "NADH">>>>),
       Eqn("PFL", <<<<1, "COA">>, <<1, "PYR">>>>, <<<<1, "ACCOA">>, <<1, "FOR">>>>) >>

Latex17 ==
    << Eqn("NADH16", <<<<4, "H">>, <<1, "NADH">>, <<1, "Q8">>>>, <<<<3, "H_E">>, <<1, "NAD">>, <<1, "Q8H2">>>>),
       Eqn("CYTBD", <<<<4, "H">>, <<1, "O2">>, <<2, "Q8H2">>>>, <<<<2, "H2O">>, <<4, "H_E">>, <<2, "Q8">>>>) >>

Latex21 ==
    << Eqn("ATPS4R", <<<<1, "ADP">>, <<4, "H_E">>, <<1, "PI">>>>, <<<<1, "ATP">>, <<3, "H">>, <<1, "H2O">>>>) >>

Latex35 ==
    << Eqn("GLCPTS", <<<<1, "GLCD_E">>, <<1, "PEP">>>>, <<<<1, "G6P">>, <<1, "PYR">>>>),
       Eqn("PGI", <<<<1, "G6P">>>>, <<<<1, "F6P">>>>),
       Eqn("PFK", <<<<1, "F6P">>, <<1, "ATP">>>>, <<<<1, "FDP">>, <<1, "ADP">>, <<1, "H">>>>),
       Eqn("FBP", <<<<1, "FDP">>, <<1, "H2O">>>>, <<<<1, "F6P">>, <<1, "PI">>>>),
       Eqn("FBA", <<<<1, "FDP">>>>, <<<<1, "DHAP">>, <<1, "G3P">>>>),
       Eqn("TPI", <<<<1, "DHAP">>>>, <<<<1, "G3P">>>>),
       Eqn("GAPD", <<<<1, "G3P">>, <<1, "PI">>, <<1, "NAD">>>>, <<<<1, "13DPG">>, <<1, "H">>, <<1, "NADH">>>>),
       Eqn("PGK", <<<<1, "13DPG">>, <<1, "ADP">>>>, <<<<1, "3PG">>, <<1, "ATP">>>>),
       Eqn("PGM", <<<<1, "3PG">>>>, <<<<1, "2PG">>>>),
       Eqn("ENO", <<<<1, "2PG">>>>, <<<<1, "PEP">>, <<1, "H2O">>>>),
       Eqn("PYK", <<<<1, "PEP">>, <<1, "ADP">>, <<1, "H">>>>, <<<<1, "PYR">>, <<1, "ATP">>>>),
       Eqn("CS", <<<<1, "ACCOA">>, <<1, "OAA">>, <<1, "H2O">>>>, <<<<1, "CIT">>, <<1, "COA">>, <<1, "H">>>>),
       Eqn("ACONTA", <<<<1, "CIT">>>>, <<<<1, "ACON">>, <<1, "H2O">>>>),
       Eqn("ACONTB", <<<<1, "ACON">>, <<1, "H2O">>>>, <<<<1, "ICIT">>>>),
       Eqn("ICDHYR", <<<<1, "ICIT">>, <<1, "NADP">>>>, <<<<1, "AKG">>, <<1, "CO2">>, <<1, "NADPH">>>>),
       Eqn("AKGDH", <<<<1, "AKG">>, <<1, "COA">>, <<1, "NAD">>>>, <<<<1, "CO2">>, <<1, "SUCCOA">>, <<1, "NADH">>>>),
       Eqn("SUCOAS", <<<<1, "SUCCOA">>, <<1, "ADP">>, <<1, "PI">>>>, <<<<1, "COA">>, <<1, "SUCC">>, <<1, "ATP">>>>),
       Eqn("FRD7", <<<<1, "SUCC">>, <<1, "Q8">>>>, <<<<1, "FUM">>, <<1, "Q8H2">>>>),
       Eqn("SUCDI", <<<<1, "SUCC">>, <<1, "Q8">>>>, <<<<1, "FUM">>, <<1, "Q8H2">>>>),
       Eqn("FUM", <<<<1, "FUM">>, <<1, "H2O">>>>, <<<<1, "MALL">>>>),
       Eqn("MDH", <<<<1, "MALL">>, <<1, "NAD">>>>, <<<<1, "OAA">>, <<1, "H">>, <<1, "NADH">>>>),
       Eqn("NADTRHD", <<<<1, "NADPH">>, <<1, "NAD">>>>, <<<<1, "NADP">>, <<1, "NADH">>>>),
       Eqn("PDH", <<<<1, "COA">>, <<1, "PYR">>, <<1, "NAD">>>>, <<<<1, "ACCOA">>, <<1, "CO2">>, <<1, "NADH">>>>),
       Eqn("PFL", <<<<1, "COA">>, <<1, "PYR">>>>, <<<<1, "ACCOA">>, <<1, "FOR">>>>),
       Eqn("NADH16", <<<<4, "H">>, <<1, "NADH">>, <<1, "Q8">>>>, <<<<3, "H_E">>, <<1, "NAD">>, <<1, "Q8H2">>>>),
       Eqn("CYTBD", <<<<1, "O2">>, <<4, "H">>, <<2, "Q8H2">>>>, <<<<4, "H_E">>, <<2, "H2O">>, <<2, "Q8">>>>),
       Eqn("ATPS4R", <<<<1, "ADP">>, <<1, "PI">>, <<4, "H_E">>>>, <<<<1, "ATP">>, <<3, "H">>, <<1, "H2O">>>>) >>

Latex6 ==
    << Eqn("pr1", <<<<1, "ATP">>, <<1, "H2O">>>>, <<<<1, "ADP">>, <<1, "H">>, <<1, "PI">>>>),
       Eqn("pr2", <<<<2, "ADP">>, <<1, "GLCD_E">>, <<2, "NAD">>, <<2, "PI">>>>, <<<<2, "ATP">>, <<2, "H">>, <<2, "H2O">>, <<2, "NADH">>, <<2, "PYR">>>>) >>

Latex10 ==
    << Eqn("pr1", <<>>, <<>>) >>

Latex11 ==
    << Eqn("pr1", <<>>, <<>>),
       Eqn("pr2", <<<<1, "ACCOA">>, <<1, "ADP">>, <<2, "H2O">>, <<3, "NAD">>, <<1, "PI">>, <<1, "Q8">>>>, <<<<1, "ATP">>, <<2, "CO2">>, <<1, "COA">>, <<2, "H">>, <<3, "NADH">>, <<1, "Q8H2">>>>) >>

Latex16 ==
    << Eqn("pr1", <<>>, <<>>),
       Eqn("pr2", <<<<1, "ADP">>, <<2, "H2O">>, <<3, "NAD">>, <<1, "NADP">>, <<1, "PI">>, <<1, "PYR">>, <<1, "Q8">>>>, <<<<1, "ATP">>, <<3, "CO2">>, <<2, "H">>, <<3, "NADH">>, <<1, "NADPH">>, <<1, "Q8H2">>>>),
       Eqn("pr3", <<<<1, "ADP">>, <<2, "H2O">>, <<2, "NAD">>, <<1, "NADP">>, <<1, "PI">>, <<1, "PYR">>, <<1, "Q8">>>>, <<<<1, "ATP">>, <<2, "CO2">>, <<1, "FOR">>, <<2, "H">>, <<2, "NADH">>, <<1, "NADPH">>, <<1, "Q8H2">>>>) >>

Latex20 ==
    << Eqn("pr1", <<<<12, "H">>, <<2, "NADH">>, <<1, "O2">>>>, <<<<2, "H2O">>, <<10, "H_E">>, <<2, "NAD">>>>) >>

Latex24 ==
    << Eqn("pr1", <<<<1, "ADP">>, <<4, "H_E">>, <<1, "PI">>>>, <<<<1, "ATP">>, <<3, "H">>, <<1, "H2O">>>>) >>

Latex32 ==
    << Eqn("pr1", <<<<1, "ATP">>, <<1, "H2O">>>>, <<<<1, "ADP">>, <<1, "PI">>, <<1, "H">>>>),
       Eqn("pr2", <<>>, <<>>),
       Eqn("pr3", <<<<1, "GLCD_E">>, <<2, "Q8">>, <<4, "ADP">>, <<4, "PI">>, <<10, "NAD">>, <<2, "H2O">>>>, <<<<6, "CO2">>, <<2, "Q8H2">>, <<4, "ATP">>, <<6, "H">>, <<10, "NADH">>>>),
       Eqn("pr4", <<<<1, "GLCD_E">>, <<2, "Q8">>, <<4, "ADP">>, <<4, "PI">>, <<8, "NAD">>, <<2, "H2O">>>>, <<<<4, "CO2">>, <<2, "FOR">>, <<2, "Q8H2">>, <<4, "ATP">>, <<6, "H">>, <<8, "NADH">>>>) >>

Latex37 ==
    << Eqn("pr1", <<<<1, "ATP">>, <<1, "H2O">>>>, <<<<1, "ADP">>, <<1, "PI">>, <<1, "H">>>>),
       Eqn("pr2", <<>>, <<>>),
       Eqn("pr3", <<<<2, "GLCD_E">>, <<12, "O2">>, <<35, "ADP">>, <<35, "PI">>, <<35, "H">>>>, <<<<12, "CO2">>, <<35, "ATP">>, <<47, "H2O">>>>) >>

Stdout6 ==
    << << << <<1, "PFK">>, <<1, "FBP">> >>,
       << <<1, "GLCPTS">>, <<1, "PGI">>, <<1, "PFK">>, <<1, "FBA">>, <<1, "TPI">>, <<2, "GAPD">>, <<2, "PGK">>, <<2, "PGM">>, <<2, "ENO">>, <<1, "PYK">> >> >> >>

Stdout9 ==
    << << << <<-1, "FRD7">>, <<1, "SUCDI">> >> >>,
       << << <<-1, "FRD7">>, <<1, "SUCDI">> >> >>,
       << << <<-1, "FRD7">>, <<1, "SUCDI">> >>,
       << <<1, "CS">>, <<1, "ACONTA">>, <<1, "ACONTB">>, <<1, "ICDHYR">>, <<1, "AKGDH">>, <<1, "SUCOAS">>, <<1, "FRD7">>, <<1, "FUM">>, <<1, "MDH">>, <<1, "NADTRHD">> >> >> >>

Stdout15 ==
    << << << <<-1, "FRD7">>, <<1, "SUCDI">> >> >>,
       << << <<-1, "FRD7">>, <<1, "SUCDI">> >> >>,
       << << <<-1, "FRD7">>, <<1, "SUCDI">> >>,
       << <<1, "CS">>, <<1, "ACONTA">>, <<1, "ACONTB">>, <<1, "ICDHYR">>, <<1, "AKGDH">>, <<1, "SUCOAS">>, <<1, "FRD7">>, <<1, "FUM">>, <<1, "MDH">>, <<1, "PDH">> >>,
       << <<1, "CS">>, <<1, "ACONTA">>, <<1, "ACONTB">>, <<1, "ICDHYR">>, <<1, "AKGDH">>, <<1, "SUCOAS">>, <<1, "FRD7">>, <<1, "FUM">>, <<1, "MDH">>, <<1, "PFL">> >> >> >>

Stdout19 ==
    << << >>,
       << << <<2, "NADH16">>, <<1, "CYTBD">> >> >> >>

Stdout23 ==
    << << >>,
       << << <<1, "ATPS4R">> >> >> >>

Stdout31 ==
    << << << <<1, "PFK">>, <<1, "FBP">> >>,
       << <<-1, "FRD7">>, <<1, "SUCDI">> >>,
       << <<1, "GLCPTS">>, <<1, "PGI">>, <<1, "PFK">>, <<1, "FBA">>, <<1, "TPI">>, <<2, "GAPD">>, <<2, "PGK">>, <<2, "PGM">>, <<2, "ENO">>, <<1, "PYK">>, <<2, "CS">>, <<2, "ACONTA">>, <<2, "ACONTB">>, <<2, "ICDHYR">>, <<2, "AKGDH">>, <<2, "SUCOAS">>, <<2, "FRD7">>, <<2, "FUM">>, <<2, "MDH">>, <<2, "NADTRHD">>, <<2, "PDH">> >>,
       << <<1, "GLCPTS">>, <<1, "PGI">>, <<1, "PFK">>, <<1, "FBA">>, <<1, "TPI">>, <<2, "GAPD">>, <<2, "PGK">>, <<2, "PGM">>, <<2, "ENO">>, <<1, "PYK">>, <<2, "CS">>, <<2, "ACONTA">>, <<2, "ACONTB">>, <<2, "ICDHYR">>, <<2, "AKGDH">>, <<2, "SUCOAS">>, <<2, "FRD7">>, <<2, "FUM">>, <<2, "MDH">>, <<2, "NADTRHD">>, <<2, "PFL">> >> >> >>

Stdout36 ==
    << << << <<1, "PFK">>, <<1, "FBP">> >>,
       << <<-1, "FRD7">>, <<1, "SUCDI">> >>,
       << <<2, "GLCPTS">>, <<2, "PGI">>, <<2, "PFK">>, <<2, "FBA">>, <<2, "TPI">>, <<4, "GAPD">>, <<4, "PGK">>, <<4, "PGM">>, <<4, "ENO">>, <<2, "PYK">>, <<4, "CS">>, <<4, "ACONTA">>, <<4, "ACONTB">>, <<4, "ICDHYR">>, <<4, "AKGDH">>, <<4, "SUCOAS">>, <<4, "FRD7">>, <<4, "FUM">>, <<4, "MDH">>, <<4, "NADTRHD">>, <<4, "PDH">>, <<20, "NADH16">>, <<12, "CYTBD">>, <<27, "ATPS4R">> >> >> >>

PPPLatex5 ==
    << Eqn("PGI", <<<<1, "G6P">>>>, <<<<1, "F6P">>>>),
       Eqn("PFK", <<<<1, "ATP">>, <<1, "F6P">>>>, <<<<1, "ADP">>, <<1, "FDP">>, <<1, "H">>>>),
       Eqn("FBA", <<<<1, "FDP">>>>, <<<<1, "DHAP">>, <<1, "G3P">>>>),
       Eqn("TPI", <<<<1, "DHAP">>>>, <<<<1, "G3P">>>>),
       Eqn("G6PDH2R", <<<<1, "G6P">>, <<1, "NADP">>>>, <<<<1, "6PGL">>, <<1, "H">>, <<1, "NADPH">>>>),
       Eqn("PGL", <<<<1, "6PGL">>, <<1, "H2O">>>>, <<<<1, "6PGC">>, <<1, "H">>>>),
       Eqn("GND", <<<<1, "6PGC">>, <<1, "NADP">>>>, <<<<1, "CO2">>, <<1, "NADPH">>, <<1, "RU5PD">>>>),
       Eqn("RPI", <<<<1, "RU5PD">>>>, <<<<1, "R5P">>>>),
       Eqn("TKT2", <<<<1, "E4P">>, <<1, "XU5PD">>>>, <<<<1, "F6P">>, <<1, "G3P">>>>),
       Eqn("TALA", <<<<1, "G3P">>, <<1, "S7P">>>>, <<<<1, "E4P">>, <<1, "F6P">>>>),
       Eqn("TKT1", <<<<1, "R5P">>, <<1, "XU5PD">>>>, <<<<1, "G3P">>, <<1, "S7P">>>>),
       Eqn("RPE", <<<<1, "RU5PD">>>>, <<<<1, "XU5PD">>>>) >>

PPPStdout8 ==
    << Eqn("pr1", <<<<1, "G6P">>, <<1, "H2O">>, <<2, "NADP">>>>, <<<<1, "CO2">>, <<2, "H">>, <<2, "NADPH">>, <<1, "R5P">>>>) >>

PPPStdout9 ==
    << Eqn("pr1", <<<<1, "ADP">>, <<1, "H">>, <<6, "R5P">>>>, <<<<1, "ATP">>, <<5, "G6P">>>>) >>

PPPStdout10 ==
    << Eqn("pr1", <<<<1, "ADP">>, <<1, "G6P">>, <<6, "H2O">>, <<12, "NADP">>>>, <<<<1, "ATP">>, <<6, "CO2">>, <<11, "H">>, <<12, "NADPH">>>>) >>

(* The multiplications reported by Extract.extract, for the reactions of textbook. *)
Stdout3 ==
    << [reaction |-> "CYTBD", by |-> 2], [reaction |-> "FRD7", by |-> -1],
       [reaction |-> "PGK", by |-> -1], [reaction |-> "PGM", by |-> -1],
       [reaction |-> "RPI", by |-> -1], [reaction |-> "SUCOAS", by |-> -1] >>

PPPStdout2 ==
    << [reaction |-> "CYTBD", by |-> 2], [reaction |-> "PGK", by |-> -1],
       [reaction |-> "PGM", by |-> -1], [reaction |-> "RPI", by |-> -1],
       [reaction |-> "SUCOAS", by |-> -1] >>
(***************************************************************************)
(* Arithmetic and sequence helpers                                         *)
(***************************************************************************)
Range(q) == {q[i] : i \in DOMAIN q}

Abs(n) == IF n < 0 THEN -n ELSE n

RECURSIVE GCD(_, _)
GCD(a, b) == IF b = 0 THEN Abs(a) ELSE GCD(b, a % Abs(b))

(* The sum of f over S, counted in units: the positive terms less the       *)
(* negative ones.                                                           *)
Sum(f, S) == Cardinality(UNION {{x} \X (1..f[x]) : x \in S})
             - Cardinality(UNION {{x} \X (1..(-f[x])) : x \in S})

(* The greatest common divisor of the values f takes on S, 0 if all are 0. *)
GCDAll(f, S) ==
    LET V == {Abs(f[x]) : x \in S} \ {0}
        divides(d) == \A v \in V : GCD(v, d) = d
    IN  IF V = {} THEN 0
        ELSE CHOOSE d \in UNION {1..v : v \in V} :
               divides(d) /\ \A e \in UNION {1..v : v \in V} : divides(e) => e <= d

RECURSIVE Cat(_, _)
Cat(qq, i) == IF i > Len(qq) THEN << >> ELSE qq[i] \o Cat(qq, i + 1)

None == [none |-> TRUE]

(* The function f as a table: the same function, every value computed once. *)
Table(f) == f @@ << >>

(* Coefficient of species x on one side of a reaction or equation. *)
SideCoef(side, x) ==
    Sum([i \in DOMAIN side |-> IF side[i][2] = x THEN side[i][1] ELSE 0], DOMAIN side)

(* Net production of species x by a typeset equation. *)
EqnCoef(e, x) == SideCoef(e.rhs, x) - SideCoef(e.lhs, x)

EqnSpecies(e) == {e.lhs[i][2] : i \in DOMAIN e.lhs} \cup {e.rhs[i][2] : i \in DOMAIN e.rhs}

(***************************************************************************)
(* CobraExtract                                                            *)
(***************************************************************************)
(* Extract.Integer: a reaction with a non-integer coefficient is multiplied *)
(* by the reciprocal of that coefficient; the result is the integer column. *)
Integer(rx) ==
    LET nonint == {x \in EqnSpecies(rx) : EqnCoef(rx, x) % rx.den # 0}
        k == IF nonint = {} THEN rx.den
             ELSE Abs(EqnCoef(rx, CHOOSE x \in nonint : TRUE))
    IN  Table([x \in Range(cobra_species) |-> EqnCoef(rx, x) \div k])

(* Extract.extract(Remove, negReaction): integer stoichiometric matrix of   *)
(* the textbook model; the reactions of negReaction are multiplied by -1.   *)
extract(negReaction) ==
    [name     |-> "e_coli_core_abg",
     species  |-> cobra_species,
     reaction |-> cobra_reaction,
     N        |-> LET col == Table([i \in DOMAIN textbook |-> Integer(textbook[i])])
                      at(r) == CHOOSE i \in DOMAIN textbook : textbook[i].name = r
                  IN  Table([e \in Range(cobra_species) \X Range(cobra_reaction) |->
                               IF e[2] \in negReaction THEN -col[at(e[2])][e[1]]
                               ELSE col[at(e[2])][e[1]]])]

(* The number Extract.Integer multiplies a reaction by: the reciprocal of   *)
(* its non-integer coefficient, 1 if it has none.                           *)
Multiplier(rx) ==
    LET nonint == {x \in EqnSpecies(rx) : EqnCoef(rx, x) % rx.den # 0}
    IN  IF nonint = {} THEN 1
        ELSE rx.den \div Abs(EqnCoef(rx, CHOOSE x \in nonint : TRUE))

(* What Extract.extract prints: the reactions rescaled by Extract.Integer,  *)
(* then the reactions of negReaction, each in the order of the model.       *)
Log(negReaction) ==
    LET rx(r) == textbook[CHOOSE i \in DOMAIN textbook : textbook[i].name = r]
        rescaled(r) == Multiplier(rx(r)) # 1
        negated(r) == r \in negReaction
        scale == SelectSeq(cobra_reaction, rescaled)
        neg == SelectSeq(cobra_reaction, negated)
    IN  [i \in DOMAIN scale |-> [reaction |-> scale[i], by |-> Multiplier(rx(scale[i]))]]
        \o [i \in DOMAIN neg |-> [reaction |-> neg[i], by |-> -1]]

(* Extract.choose(sm, reaction): the sub-network of the listed reactions    *)
(* with the species they involve, in the order of sm.                       *)
choose(m, rl) ==
    LET used(x) == \E r \in Range(rl) : m.N[<<x, r>>] # 0
        sp == SelectSeq(m.species, used)
    IN  [name     |-> m.name,
         species  |-> sp,
         reaction |-> rl,
         N        |-> Table([e \in Range(sp) \X Range(rl) |-> m.N[e]])]

(***************************************************************************)
(* stoichBondGraph and modularBondGraph                                    *)
(***************************************************************************)
(* stbg.model(s): the bond graph of a stoichiometric record.  One Ce        *)
(* component per species, one Re component per reaction; species x is       *)
(* bonded to the forward port of reaction r once per unit it is consumed    *)
(* and to the reverse port once per unit it is produced.                    *)
model(rec) ==
    [name  |-> rec.name,
     Ce    |-> rec.species,
     Re    |-> rec.reaction,
     bonds |-> Table([e \in Range(rec.species) \X Range(rec.reaction) |->
                        [f |-> IF rec.N[e] < 0 THEN -rec.N[e] ELSE 0,
                         r |-> IF rec.N[e] > 0 THEN rec.N[e] ELSE 0]])]

(* bgt.new(name) followed by add(components). *)
new(n, comps) == [name |-> n, components |-> comps, common |-> {}]

(* mbg.unify(system, common): the Ce components named in common are merged. *)
unify(sys, common) == [sys EXCEPT !.common = Range(common)]

IsComposite(bg) == "components" \in DOMAIN bg

(* The species a Ce component of sub-module c stands for inside a composite: *)
(* a unified species or a species of one module keeps its name, a species    *)
(* that two modules hold separately is qualified by the module.              *)
CeName(sys, c, x) ==
    IF x \in sys.common \/ ~ \E d \in Range(sys.components) : d # c /\ x \in Range(d.Ce)
    THEN x ELSE c.name \o ":" \o x

(* The sequence q with only the first occurrence of each element kept. *)
Uniq(q) ==
    LET first(e) == \A k \in 1..(e[1] - 1) : q[k] # e[2]
        kept == SelectSeq([i \in DOMAIN q |-> <<i, q[i]>>], first)
    IN  [i \in DOMAIN kept |-> kept[i][2]]

(***************************************************************************)
(* stoich: null space of the reduced stoichiometric matrix                 *)
(***************************************************************************)
Unit(rec, j) == Table([r \in Range(rec.reaction) |-> IF r = rec.reaction[j] THEN 1 ELSE 0])

(* The first species, in the order of the record, that flow w produces or consumes. *)
Lead(rec, p) ==
    rec.species[CHOOSE i \in DOMAIN rec.species :
                   /\ rec.species[i] \in DOMAIN p /\ p[rec.species[i]] # 0
                   /\ \A k \in 1..(i - 1) :
                        rec.species[k] \in DOMAIN p => p[rec.species[k]] = 0]

(* Eliminate the leading species of pivot q from the flow wp.w, whose        *)
(* production of the balanced species is wp.p; integer arithmetic throughout. *)
Eliminate(wp, q) ==
    LET b == wp.p[q.lead]
    IN  IF b = 0 THEN wp
        ELSE LET a  == q.p[q.lead]
                 w2 == Table([r \in DOMAIN wp.w |-> a * wp.w[r] - b * q.w[r]])
                 p2 == Table([x \in DOMAIN wp.p |-> a * wp.p[x] - b * q.p[x]])
                 g  == GCDAll(w2, DOMAIN w2)
             IN  [w |-> Table([r \in DOMAIN w2 |-> w2[r] \div g]),
                  p |-> Table([x \in DOMAIN p2 |-> p2[x] \div g])]

(* Eliminate the pivots lo..hi from wp, in order; a flow that already leaves *)
(* every species balanced has nothing left to eliminate.                     *)
RECURSIVE Reduce(_, _, _, _)
Reduce(wp, piv, lo, hi) ==
    IF lo > hi THEN wp
    ELSE IF lo = hi THEN Eliminate(wp, piv[lo])
    ELSE LET mid  == (lo + hi) \div 2
             left == Reduce(wp, piv, lo, mid)
         IN  IF \A x \in DOMAIN left.p : left.p[x] = 0 THEN left
             ELSE Reduce(left, piv, mid + 1, hi)

(* The reactions lo..hi are taken in order, after the pivots piv.  A reaction *)
(* whose column is independent of the pivots so far becomes a pivot; a        *)
(* dependent one gives a pathway: the integer flow, positive in that          *)
(* reaction, that combines it with the pivots.                                *)
RECURSIVE Basis(_, _, _, _, _, _)
Basis(rec, X, F, lo, hi, piv) ==
    IF lo > hi \/ (lo = hi /\ rec.reaction[lo] \in F) THEN [K |-> << >>, piv |-> piv]
    ELSE IF lo = hi
    THEN LET rj == rec.reaction[lo]
             wp == Reduce([w |-> Unit(rec, lo), p |-> Table([x \in X |-> rec.N[<<x, rj>>]])],
                          piv, 1, Len(piv))
         IN  IF \E x \in X : wp.p[x] # 0
             THEN [K   |-> << >>,
                   piv |-> Append(piv, [w |-> wp.w, p |-> wp.p, lead |-> Lead(rec, wp.p)])]
             ELSE [K   |-> <<Table([r \in DOMAIN wp.w |->
                                      IF wp.w[rj] < 0 THEN -wp.w[r] ELSE wp.w[r]])>>,
                   piv |-> piv]
    ELSE LET mid   == (lo + hi) \div 2
             left  == Basis(rec, X, F, lo, mid, piv)
             right == Basis(rec, X, F, mid + 1, hi, left.piv)
         IN  [K |-> left.K \o right.K, piv |-> right.piv]

(* Chemostats taken as blocking every reaction they take part in. *)
NullSpaceBlocked(rec, chemostats, flowstats) ==
    Basis(rec, Range(rec.species) \ chemostats,
          flowstats \cup {r \in Range(rec.reaction) :
                            \E x \in chemostats \cap Range(rec.species) : rec.N[<<x, r>>] # 0},
          1, Len(rec.reaction), << >>).K

(* Pathways: a basis of the flows that are zero in the flowstats and leave   *)
(* every species that is not a chemostat balanced.                           *)
NullSpace(rec, chemostats, flowstats) ==
    Basis(rec, Range(rec.species) \ chemostats, flowstats, 1, Len(rec.reaction), << >>).K

Closed(rec) ==
    [name |-> rec.name, species |-> rec.species, reaction |-> rec.reaction, N |-> rec.N,
     chemostats |-> << >>, flowstats |-> << >>, K |-> NullSpace(rec, {}, {})]

FlatN(bg) == Table([e \in Range(bg.Ce) \X Range(bg.Re) |-> bg.bonds[e].r - bg.bonds[e].f])

(* st.stoich(bg): the stoichiometric record of a bond graph, read off the    *)
(* bonds between Ce and Re components, with the pathways of the closed system. *)
stoich(bg) ==
    IF IsComposite(bg)
    THEN LET cs == bg.components
             sp == Uniq(Cat([i \in DOMAIN cs |->
                              [j \in DOMAIN cs[i].Ce |-> CeName(bg, cs[i], cs[i].Ce[j])]], 1))
             rl == Cat([i \in DOMAIN cs |-> cs[i].Re], 1)
             Ns == Table([i \in DOMAIN cs |-> FlatN(cs[i])])
             Entry(i, e) ==
                 IF e[2] \notin Range(cs[i].Re) THEN 0
                 ELSE LET xs == {x \in Range(cs[i].Ce) : CeName(bg, cs[i], x) = e[1]}
                      IN  Sum([x \in xs |-> Ns[i][<<x, e[2]>>]], xs)
         IN  Closed([name |-> bg.name, species |-> sp, reaction |-> rl,
                     N |-> Table([e \in Range(sp) \X Range(rl) |->
                                    Sum([i \in DOMAIN cs |-> Entry(i, e)], DOMAIN cs)])])
    ELSE Closed([name |-> bg.name, species |-> bg.Ce, reaction |-> bg.Re, N |-> FlatN(bg)])

(* statify that also leaves the first species of the record unbalanced. *)
statifyLoose(rec, chemostats, flowstats) ==
    [rec EXCEPT !.chemostats = chemostats, !.flowstats = flowstats,
                !.K = NullSpace(rec, Range(chemostats) \cup {rec.species[1]},
                                Range(flowstats))]

(* st.statify(s, chemostats, flowstats) *)
statify(rec, chemostats, flowstats) ==
    [rec EXCEPT !.chemostats = chemostats, !.flowstats = flowstats,
                !.K = NullSpace(rec, Range(chemostats), Range(flowstats))]

IsSingle(w) == Cardinality({r \in DOMAIN w : w[r] # 0}) = 1

Pathways(rec, removeSingle) ==
    LET keep(w) == ~ (removeSingle /\ IsSingle(w)) IN SelectSeq(rec.K, keep)

(* st.sprintp(sc): each pathway as the list of its non-zero flows. *)
sprintp(rec, removeSingle) ==
    LET P == Pathways(rec, removeSingle)
        nz(e) == e[1] # 0
    IN  [i \in DOMAIN P |->
           SelectSeq([j \in DOMAIN rec.reaction |-> <<P[i][rec.reaction[j]], rec.reaction[j]>>], nz)]

(* Net production of species x by flow w through the reactions of rec. *)
Production(rec, w, x) ==
    Sum([r \in Range(rec.reaction) |-> rec.N[<<x, r>>] * w[r]], Range(rec.reaction))

(* st.path(s, sc): the pathway stoichiometry N K, one reaction pr<i> per pathway. *)
path(rec, sc, removeSingle) ==
    LET P  == Pathways(sc, removeSingle)
        pr == [i \in DOMAIN P |-> "pr" \o ToString(i)]
    IN  [name |-> rec.name, species |-> rec.species, reaction |-> pr,
         N |-> Table([e \in Range(rec.species) \X Range(pr) |->
                        Production(rec, P[CHOOSE i \in DOMAIN pr : pr[i] = e[2]], e[1])])]

(* st.sprintrl(s): one equation per reaction, species in the order of the record. *)
sprintrl(rec) ==
    LET pos(e) == e[1] > 0
        Side(r, sgn) ==
            SelectSeq([i \in DOMAIN rec.species |->
                         <<sgn * rec.N[<<rec.species[i], r>>], rec.species[i]>>], pos)
    IN  [j \in DOMAIN rec.reaction |->
           Eqn(rec.reaction[j], Side(rec.reaction[j], -1), Side(rec.reaction[j], 1))]

(* np.linalg.norm(A['N'] - B['N']) squared; the matrices are indexed by      *)
(* position and a shape mismatch raises.                                     *)
norm2(A, B) ==
    IF Len(A.species) # Len(B.species) \/ Len(A.reaction) # Len(B.reaction)
    THEN -1
    ELSE LET d(i, j) == A.N[<<A.species[i], A.reaction[j]>>]
                          - B.N[<<B.species[i], B.reaction[j]>>]
             row(i) == Sum([j \in DOMAIN A.reaction |-> d(i, j) * d(i, j)], DOMAIN A.reaction)
         IN  Sum([i \in DOMAIN A.species |-> row(i)], DOMAIN A.species)

(***************************************************************************)
(* The code cells of ModularEcoli, in the order of the notebook.  In is    *)
(* the execution count saved with the cell.                                *)
(***************************************************************************)
Cell1 == [op |-> "def", In |-> 1]

Cell2 == [op |-> "def", In |-> 2]

(* Cell 3 with FRD7 left in the direction of the textbook model. *)
Cell3FRD7 == [op |-> "extract", In |-> 3,
              negReaction |-> <<"RPI", "PGK", "PGM", "SUCOAS">>]

Cell3 == [op |-> "extract", In |-> 3,
          negReaction |-> <<"RPI", "PGK", "PGM", "SUCOAS", "FRD7">>]

(* Cell 4 without FBP in the list of reactions. *)
Cell4NoFBP == [op |-> "choose", In |-> 4, var |-> "s0", extend |-> FALSE,
               reaction |-> <<"GLCPTS", "PGI", "PFK", "FBA", "TPI", "GAPD", "PGK",
                              "PGM", "ENO", "PYK">>]

Cell4 == [op |-> "choose", In |-> 4, var |-> "s0", extend |-> FALSE,
          reaction |-> <<"GLCPTS", "PGI", "PFK", "FBP", "FBA", "TPI", "GAPD", "PGK",
                         "PGM", "ENO", "PYK">>]

Cell5 == [op |-> "model", In |-> 5, name |-> "GLY_abg", from |-> "s0", setReaction |-> FALSE]

Cell6 == [op |-> "statify", In |-> 6, closed |-> FALSE,
          setChemostats0 |-> TRUE, chemostats0 |-> <<"ADP", "ATP", "H2O", "PI", "H">>,
          sc0 |-> TRUE, printSc0 |-> FALSE,
          chemostats |-> <<"GLCD_E", "PYR", "NAD", "NADH">>, extend |-> TRUE,
          removeSingle |-> FALSE, path |-> TRUE]

Cell7 == [op |-> "choose", In |-> 7, var |-> "s0", extend |-> FALSE,
          reaction |-> <<"CS", "ACONTA", "ACONTB", "ICDHYR", "AKGDH", "SUCOAS", "FRD7",
                         "SUCDI", "FUM", "MDH", "NADTRHD">>]

Cell8 == [op |-> "model", In |-> 8, name |-> "TCA_abg", from |-> "s0", setReaction |-> FALSE]

(* Cell 9 without CO2 among the added chemostats. *)
Cell9NoCO2 == [op |-> "statify", In |-> 9, closed |-> TRUE,
               setChemostats0 |-> TRUE,
               chemostats0 |-> <<"ADP", "ATP", "H2O", "NAD", "NADH", "PI", "H", "Q8", "Q8H2">>,
               sc0 |-> TRUE, printSc0 |-> TRUE,
               chemostats |-> <<"ACCOA", "COA">>, extend |-> TRUE,
               removeSingle |-> FALSE, path |-> FALSE]

Cell9 == [op |-> "statify", In |-> 9, closed |-> TRUE,
          setChemostats0 |-> TRUE,
          chemostats0 |-> <<"ADP", "ATP", "H2O", "NAD", "NADH", "PI", "H", "Q8", "Q8H2">>,
          sc0 |-> TRUE, printSc0 |-> TRUE,
          chemostats |-> <<"ACCOA", "COA", "CO2">>, extend |-> TRUE,
          removeSingle |-> FALSE, path |-> FALSE]

Cell10 == [op |-> "path", In |-> 10, from |-> "sc0", removeSingle |-> TRUE]

(* Cell 11 taking the pathways of sc0 instead of sc. *)
Cell11Basic == [op |-> "path", In |-> 11, from |-> "sc0", removeSingle |-> TRUE]

Cell11 == [op |-> "path", In |-> 11, from |-> "sc", removeSingle |-> TRUE]

Cell12 == [op |-> "choose", In |-> 12, var |-> "s0", extend |-> TRUE,
           reaction |-> <<"PDH", "PFL">>]

(* Cell 13 with the module name of cell 8 left in place. *)
Cell13Stale == [op |-> "model", In |-> 13, name |-> "TCA_abg", from |-> "s0",
                setReaction |-> FALSE]

Cell13 == [op |-> "model", In |-> 13, name |-> "PyrTCA_abg", from |-> "s0",
           setReaction |-> FALSE]

Cell15 == [op |-> "statify", In |-> 15, closed |-> TRUE,
           setChemostats0 |-> TRUE,
           chemostats0 |-> <<"ADP", "ATP", "H2O", "NAD", "NADH", "PI", "NADP", "NADPH", "H",
                             "Q8", "Q8H2", "FOR">>,
           sc0 |-> TRUE, printSc0 |-> TRUE,
           chemostats |-> <<"PYR", "CO2">>, extend |-> TRUE,
           removeSingle |-> TRUE, path |-> FALSE]

Cell16 == [op |-> "path", In |-> 16, from |-> "sc", removeSingle |-> TRUE]

Cell17 == [op |-> "choose", In |-> 17, var |-> "s0", extend |-> FALSE,
           reaction |-> <<"NADH16", "CYTBD">>]

Cell18 == [op |-> "model", In |-> 18, name |-> "ETC_abg", from |-> "s0", setReaction |-> TRUE]

(* Cell 19 with the quinone pair held fixed as well. *)
Cell19Quinone == [op |-> "statify", In |-> 19, closed |-> TRUE,
                  setChemostats0 |-> FALSE, chemostats0 |-> << >>,
                  sc0 |-> FALSE, printSc0 |-> FALSE,
                  chemostats |-> <<"NADH", "NAD", "O2", "H2O", "H", "H_E", "Q8", "Q8H2">>,
                  extend |-> FALSE, removeSingle |-> FALSE, path |-> FALSE]

Cell19 == [op |-> "statify", In |-> 19, closed |-> TRUE,
           setChemostats0 |-> FALSE, chemostats0 |-> << >>,
           sc0 |-> FALSE, printSc0 |-> FALSE,
           chemostats |-> <<"NADH", "NAD", "O2", "H2O", "H", "H_E">>, extend |-> FALSE,
           removeSingle |-> FALSE, path |-> FALSE]

Cell20 == [op |-> "path", In |-> 20, from |-> "sc", removeSingle |-> TRUE]

Cell21 == [op |-> "choose", In |-> 21, var |-> "s0", extend |-> FALSE,
           reaction |-> <<"ATPS4R">>]

Cell22 == [op |-> "model", In |-> 22, name |-> "ATP_abg", from |-> "s0", setReaction |-> TRUE]

Cell23 == [op |-> "statify", In |-> 23, closed |-> TRUE,
           setChemostats0 |-> FALSE, chemostats0 |-> << >>,
           sc0 |-> FALSE, printSc0 |-> FALSE,
           chemostats |-> <<"H", "H_E", "ATP", "ADP", "PI", "H2O">>, extend |-> FALSE,
           removeSingle |-> FALSE, path |-> FALSE]

(* Cell 24 with the default removeSingle of st.path. *)
Cell24Default == [op |-> "path", In |-> 24, from |-> "sc", removeSingle |-> TRUE]

Cell24 == [op |-> "path", In |-> 24, from |-> "sc", removeSingle |-> FALSE]

Cell25 == [op |-> "new", In |-> 25, var |-> "GlyTCA", name |-> "GlyTCA",
           add |-> <<"GLY_abg", "PyrTCA_abg">>]

(* Cell 26 without PYR in the list of common species. *)
Cell26NoPYR == [op |-> "unify", In |-> 26, var |-> "GlyTCA",
                common |-> <<"ATP", "ADP", "PI", "H", "NAD", "NADH", "H2O">>]

Cell26 == [op |-> "unify", In |-> 26, var |-> "GlyTCA",
           common |-> <<"PYR", "ATP", "ADP", "PI", "H", "NAD", "NADH", "H2O">>]

Cell27 == [op |-> "stoich", In |-> 27, var |-> "GlyTCA", show |-> FALSE]

Cell28 == [op |-> "model", In |-> 28, name |-> "GlyTCA_abg", from |-> "s", setReaction |-> FALSE]

Cell31 == [op |-> "statify", In |-> 31, closed |-> FALSE,
           setChemostats0 |-> TRUE,
           chemostats0 |-> <<"ADP", "ATP", "H2O", "NAD", "NADH", "PI", "H", "Q8", "Q8H2", "FOR">>,
           sc0 |-> FALSE, printSc0 |-> FALSE,
           chemostats |-> <<"GLCD_E", "CO2">>, extend |-> TRUE,
           removeSingle |-> FALSE, path |-> FALSE]

Cell32 == [op |-> "path", In |-> 32, from |-> "sc", removeSingle |-> TRUE]

Cell33 == [op |-> "new", In |-> 33, var |-> "Met", name |-> "Met",
           add |-> <<"GlyTCA_abg", "ETC_abg", "ATP_abg">>]

(* Cell 34 without the external protons in the list of common species. *)
Cell34NoHE == [op |-> "unify", In |-> 34, var |-> "Met",
               common |-> <<"ATP", "ADP", "PI", "H", "NAD", "NADH", "H2O", "Q8", "Q8H2">>]

Cell34 == [op |-> "unify", In |-> 34, var |-> "Met",
           common |-> <<"ATP", "ADP", "PI", "H", "H_E", "NAD", "NADH", "H2O", "Q8", "Q8H2">>]

Cell35 == [op |-> "stoich", In |-> 35, var |-> "Met", show |-> TRUE]

(* Cell 36 with formate held fixed as well. *)
Cell36Formate == [op |-> "statify", In |-> 36, closed |-> FALSE,
                  setChemostats0 |-> TRUE, chemostats0 |-> <<"ADP", "ATP", "H2O", "PI", "H">>,
                  sc0 |-> FALSE, printSc0 |-> FALSE,
                  chemostats |-> <<"GLCD_E", "CO2", "O2", "FOR">>, extend |-> TRUE,
                  removeSingle |-> FALSE, path |-> FALSE]

Cell36 == [op |-> "statify", In |-> 36, closed |-> FALSE,
           setChemostats0 |-> TRUE, chemostats0 |-> <<"ADP", "ATP", "H2O", "PI", "H">>,
           sc0 |-> FALSE, printSc0 |-> FALSE,
           chemostats |-> <<"GLCD_E", "CO2", "O2">>, extend |-> TRUE,
           removeSingle |-> FALSE, path |-> FALSE]

Cell37 == [op |-> "path", In |-> 37, from |-> "sc", removeSingle |-> TRUE]

(* ModularEcoli with the Glycolysis cells placed before the extraction cell. *)
ModularEcoliChooseFirst ==
    << Cell1, Cell2, Cell4, Cell5, Cell6, Cell3, Cell7, Cell8, Cell9, Cell10, Cell11, Cell12,
       Cell13, Cell15, Cell16, Cell17, Cell18, Cell19, Cell20, Cell21, Cell22, Cell23, Cell24,
       Cell25, Cell26, Cell27, Cell28, Cell31, Cell32, Cell33, Cell34, Cell35, Cell36, Cell37 >>

ModularEcoli ==
    << Cell1, Cell2, Cell3, Cell4, Cell5, Cell6, Cell7, Cell8, Cell9, Cell10, Cell11, Cell12,
       Cell13, Cell15, Cell16, Cell17, Cell18, Cell19, Cell20, Cell21, Cell22, Cell23, Cell24,
       Cell25, Cell26, Cell27, Cell28, Cell31, Cell32, Cell33, Cell34, Cell35, Cell36, Cell37 >>

(***************************************************************************)
(* The code cells of EcoliPPP.                                             *)
(***************************************************************************)
PPPCell1 == [op |-> "def", In |-> 1]

PPPCell2 == [op |-> "extract", In |-> 2, negReaction |-> <<"RPI", "PGK", "PGM", "SUCOAS">>]

PPPCell3 == [op |-> "choose", In |-> 3, var |-> "sGlyPPP", extend |-> FALSE,
             name |-> "GlyPPP_abg",
             reaction |-> <<"PGI", "PFK", "FBA", "TPI", "G6PDH2R", "PGL", "GND", "RPI",
                            "TKT2", "TALA", "TKT1", "RPE">>]

PPPCell4 == [op |-> "import", In |-> 4, name |-> "GlyPPP_abg"]

PPPCell5 == [op |-> "show", In |-> 5]

PPPCell6 == [op |-> "def", In |-> 6]

PPPCell7 == [op |-> "def", In |-> 7]

PPPCell8 == [op |-> "Pathway", In |-> 8, start |-> "G6P", end |-> <<"R5P">>,
             flowstats |-> <<"PGI", "TKT2">>]

PPPCell9 == [op |-> "Pathway", In |-> 9, start |-> "G6P", end |-> <<"R5P">>,
             flowstats |-> <<"G6PDH2R">>]

PPPCell10 == [op |-> "Pathway", In |-> 10, start |-> "G6P", end |-> << >>,
              flowstats |-> << >>]

EcoliPPP ==
    << PPPCell1, PPPCell2, PPPCell3, PPPCell4, PPPCell5, PPPCell6, PPPCell7, PPPCell8,
       PPPCell9, PPPCell10 >>

(* def Chemostats(start='G6P', end=None); end None is the empty list here. *)
Chemostats(start, end) ==
    <<"ADP", "ATP", "CO2", "H", "H2O", "NADP", "NADPH">> \o <<start>> \o end

(* Pathway without the flowstats argument passed on to st.statify. *)
PathwayNoFlowstats(S_, chemostats_, flowstats_) ==
    LET s_  == S_
        sc_ == statify(s_, chemostats_, << >>)
        sp_ == path(s_, sc_, TRUE)
    IN  [s |-> s_, sc |-> sc_, sp |-> sp_, stdout |-> sprintrl(sp_)]

(* def Pathway(S, chemostats, flowstats=[]): returns s, sc, sp and prints sprintrl(sp). *)
Pathway(S_, chemostats_, flowstats_) ==
    LET s_  == S_
        sc_ == statify(s_, chemostats_, flowstats_)
        sp_ == path(s_, sc_, TRUE)
    IN  [s |-> s_, sc |-> sc_, sp |-> sp_, stdout |-> sprintrl(sp_)]

(***************************************************************************)
(* The kernel                                                              *)
(***************************************************************************)
VARIABLES
    nb,           \* the notebook being run
    pc,           \* index of the next cell to run
    count,        \* execution counter of the kernel
    last,         \* index of the cell that ran last, 0 before the first
    sm, reaction, s0, sGlyPPP, s, S, err,
    files,        \* the modules written by stbg.model, by name
    modules,      \* the modules imported so far, by name (the import cache)
    GlyTCA, Met,
    chemostats0, chemostats, flowstats,
    sc0, sc, sp0, sp,
    stdout,       \* what the last cell printed: multiplications or pathways
    latex         \* the reactions (disp.Latex) the last cell displayed

data == <<sm, reaction, s0, sGlyPPP, s, S, err>>
disk == <<files, modules>>
systems == <<GlyTCA, Met>>
stats == <<chemostats0, chemostats, flowstats>>
paths == <<sc0, sc, sp0, sp>>
vars == <<nb, pc, count, last, data, disk, systems, stats, paths, stdout, latex>>

(* The largest number of times cells are run again. *)
MaxRerun == 3

Notebook == IF nb = "ModularEcoli" THEN ModularEcoli ELSE EcoliPPP

cell == Notebook[pc]

(* The cell whose output is shown: cell n of ModularEcoli or of EcoliPPP. *)
Ran(n) == nb = "ModularEcoli" /\ last > 0 /\ Notebook[last].In = n

RanPPP(n) == nb = "EcoliPPP" /\ last > 0 /\ Notebook[last].In = n

Running(op) == pc \in DOMAIN Notebook /\ cell.op = op

Advance == pc' = pc + 1 /\ count' = count + 1 /\ last' = pc /\ nb' = nb

write(fs, n, bg) == [k \in DOMAIN fs \cup {n} |-> IF k = n THEN bg ELSE fs[k]]

(* import n: a module that is already imported is not loaded again. *)
import(ms, fs, n) == IF n \in DOMAIN ms THEN ms ELSE write(ms, n, fs[n])

(* s['reaction'] = names: the reactions are renamed by position. *)
Relabel(rec, names) ==
    IF Len(names) # Len(rec.reaction) THEN rec
    ELSE LET old(r) == rec.reaction[CHOOSE i \in DOMAIN names : names[i] = r]
         IN  [rec EXCEPT !.reaction = names,
                         !.N = Table([e \in Range(rec.species) \X Range(names) |->
                                        rec.N[<<e[1], old(e[2])>>]]),
                         !.K = [i \in DOMAIN rec.K |->
                                  Table([r \in Range(names) |-> rec.K[i][old(r)]])]]

Init ==
    /\ nb \in {"ModularEcoli", "EcoliPPP"}
    /\ pc = 1 /\ count = 0 /\ last = 0
    /\ sm = None /\ reaction = << >> /\ s0 = None /\ sGlyPPP = None
    /\ s = None /\ S = None /\ err = None
    /\ files = << >> /\ modules = << >>
    /\ GlyTCA = None /\ Met = None
    /\ chemostats0 = << >> /\ chemostats = << >> /\ flowstats = << >>
    /\ sc0 = None /\ sc = None /\ sp0 = None /\ sp = None
    /\ stdout = << >> /\ latex = << >>

(* import ... / def ...: nothing the analysis reads changes. *)
Define ==
    /\ Running("def")
    /\ Advance
    /\ stdout' = << >> /\ latex' = << >>
    /\ UNCHANGED <<data, disk, systems, stats, paths>>

(* Extract.extract printing nothing. *)
ExtractQuiet ==
    /\ Running("extract")
    /\ sm' = extract(Range(cell.negReaction))
    /\ Advance
    /\ stdout' = << >> /\ latex' = << >>
    /\ UNCHANGED <<reaction, s0, sGlyPPP, s, S, err, disk, systems, stats, paths>>

(* sm = Extract.extract(Remove, negReaction) *)
Extract ==
    /\ Running("extract")
    /\ sm' = extract(Range(cell.negReaction))
    /\ Advance
    /\ stdout' = Log(Range(cell.negReaction)) /\ latex' = << >>
    /\ UNCHANGED <<reaction, s0, sGlyPPP, s, S, err, disk, systems, stats, paths>>

(* reaction = [...] or reaction.extend([...]); Extract.choose(sm, reaction). *)
(* ModularEcoli displays the sub-network; EcoliPPP names it and writes the   *)
(* bond graph module.                                                        *)
Choose ==
    /\ Running("choose")
    /\ LET rl  == IF cell.extend THEN reaction \o cell.reaction ELSE cell.reaction
           sub == choose(sm, rl)
       IN  /\ reaction' = rl
           /\ IF cell.var = "s0"
              THEN /\ s0' = sub
                   /\ latex' = sprintrl(sub)
                   /\ UNCHANGED <<sGlyPPP, files>>
              ELSE /\ sGlyPPP' = [sub EXCEPT !.name = cell.name]
                   /\ files' = write(files, cell.name, model(sGlyPPP'))
                   /\ latex' = << >>
                   /\ UNCHANGED s0
    /\ Advance
    /\ stdout' = << >>
    /\ UNCHANGED <<sm, s, S, err, modules, systems, stats, paths>>

(* s0['name'] = name; stbg.model(s0); import name;                          *)
(* s = st.stoich(name.model()); err = norm(s['N'] - s0['N'])                *)
(* and, for the composite, s['name'] = name; stbg.model(s); import name.    *)
Model ==
    /\ Running("model")
    /\ LET src   == IF cell.from = "s0" THEN s0 ELSE s
           named == [src EXCEPT !.name = cell.name]
           fs    == write(files, cell.name, model(named))
           ms    == import(modules, fs, cell.name)
           t     == stoich(ms[cell.name])
       IN  /\ files' = fs
           /\ modules' = ms
           /\ IF cell.from = "s0"
              THEN /\ s0' = named
                   /\ err' = norm2(t, named)
                   /\ s' = IF cell.setReaction THEN Relabel(t, named.reaction) ELSE t
              ELSE /\ s' = named
                   /\ UNCHANGED <<s0, err>>
    /\ Advance
    /\ stdout' = << >> /\ latex' = << >>
    /\ UNCHANGED <<sm, reaction, sGlyPPP, S, systems, stats, paths>>

(* import name; S = st.stoich(name.model()) *)
Import ==
    /\ Running("import")
    /\ modules' = import(modules, files, cell.name)
    /\ S' = stoich(modules'[cell.name])
    /\ Advance
    /\ stdout' = << >> /\ latex' = << >>
    /\ UNCHANGED <<sm, reaction, s0, sGlyPPP, s, err, files, systems, stats, paths>>

(* disp.Latex(st.sprintrl(sGlyPPP)) *)
Show ==
    /\ Running("show")
    /\ latex' = sprintrl(sGlyPPP)
    /\ Advance
    /\ stdout' = << >>
    /\ UNCHANGED <<data, disk, systems, stats, paths>>

(* X = bgt.new(name); X.add(A.model(), B.model(), ...) *)
New ==
    /\ Running("new")
    /\ LET sys == new(cell.name, [i \in DOMAIN cell.add |-> modules[cell.add[i]]])
       IN  IF cell.var = "GlyTCA"
           THEN GlyTCA' = sys /\ UNCHANGED Met
           ELSE Met' = sys /\ GlyTCA' = modules["GlyTCA_abg"]
    /\ Advance
    /\ stdout' = << >> /\ latex' = << >>
    /\ UNCHANGED <<data, disk, stats, paths>>

(* mbg.unify(X, common=common) *)
Unify ==
    /\ Running("unify")
    /\ IF cell.var = "GlyTCA"
       THEN GlyTCA' = unify(GlyTCA, cell.common) /\ UNCHANGED Met
       ELSE Met' = unify(Met, cell.common) /\ UNCHANGED GlyTCA
    /\ Advance
    /\ stdout' = << >> /\ latex' = << >>
    /\ UNCHANGED <<data, disk, stats, paths>>

(* s = st.stoich(X) *)
Stoich ==
    /\ Running("stoich")
    /\ s' = stoich(IF cell.var = "GlyTCA" THEN GlyTCA ELSE Met)
    /\ latex' = IF cell.show THEN sprintrl(s') ELSE << >>
    /\ Advance
    /\ stdout' = << >>
    /\ UNCHANGED <<sm, reaction, s0, sGlyPPP, S, err, disk, systems, stats, paths>>

(* The pathway analysis cells: print(st.sprintp(s)); sc0 = st.statify(s,    *)
(* chemostats0); sc = st.statify(s, chemostats); print(st.sprintp(sc)) and, *)
(* in the Glycolysis cell, sp = st.path(s, sc) with its display.            *)
Statify ==
    /\ Running("statify")
    /\ LET c   == cell
           ch0 == IF c.setChemostats0 THEN c.chemostats0 ELSE chemostats0
           ch  == IF c.extend THEN c.chemostats \o ch0 ELSE c.chemostats
           a0  == statify(s, ch0, << >>)
           a   == statify(s, ch, << >>)
       IN  /\ chemostats0' = ch0
           /\ chemostats' = ch
           /\ sc0' = IF c.sc0 THEN a0 ELSE sc0
           /\ sc' = a
           /\ stdout' = (IF c.closed THEN <<sprintp(s, c.removeSingle)>> ELSE << >>)
                        \o (IF c.printSc0 THEN <<sprintp(a0, c.removeSingle)>> ELSE << >>)
                        \o <<sprintp(a, c.removeSingle)>>
           /\ IF c.path
              THEN sp' = path(s, a, TRUE) /\ latex' = sprintrl(sp')
              ELSE sp' = sp /\ latex' = << >>
    /\ Advance
    /\ UNCHANGED <<data, disk, systems, flowstats, sp0>>

(* sp0 = st.path(s, sc0) or sp = st.path(s, sc); disp.Latex(st.sprintrl(sp)) *)
Path ==
    /\ Running("path")
    /\ LET r == path(s, IF cell.from = "sc0" THEN sc0 ELSE sc, cell.removeSingle)
       IN  /\ IF cell.from = "sc0" THEN sp0' = r /\ sp' = sp ELSE sp' = r /\ sp0' = sp0
           /\ latex' = sprintrl(r)
    /\ Advance
    /\ stdout' = << >>
    /\ UNCHANGED <<data, disk, systems, stats, sc0, sc>>

(* chemostats = Chemostats(start, end); flowstats = [...];                  *)
(* s, sc, sp = Pathway(S, chemostats, flowstats=flowstats);                 *)
(* disp.Latex(st.sprintrl(sp))                                              *)
PathwayCall ==
    /\ Running("Pathway")
    /\ chemostats' = Chemostats(cell.start, cell.end)
    /\ flowstats' = cell.flowstats
    /\ LET r == Pathway(S, chemostats', flowstats')
       IN  /\ s' = r.s /\ sc' = r.sc /\ sp' = r.sp
           /\ stdout' = r.stdout
           /\ latex' = sprintrl(r.sp)
    /\ Advance
    /\ UNCHANGED <<sm, reaction, s0, sGlyPPP, S, err, disk, systems, chemostats0, sc0, sp0>>

(* The cell that ran last is selected and run again (the execution counts   *)
(* saved in ModularEcoli skip 14, 29 and 30: analysis cells were re-run).   *)
Rerun ==
    /\ pc > 1
    /\ Notebook[pc - 1].op \in {"statify", "Pathway"}
    /\ count - (pc - 1) < MaxRerun
    /\ pc' = pc - 1
    /\ UNCHANGED <<nb, count, last, data, disk, systems, stats, paths, stdout, latex>>

Next ==
    \/ Define \/ Extract \/ Choose \/ Model \/ Import \/ Show
    \/ New \/ Unify \/ Stoich \/ Statify \/ Path \/ PathwayCall \/ Rerun

Spec == Init /\ [][Next]_vars

(***************************************************************************)
(* Properties                                                              *)
(***************************************************************************)
(* The cell that ran last, and what kind of cell it was. *)
Last == Notebook[last]

Did(op) == last > 0 /\ Last.op = op

(* What the notebook file holds as the output of the cell that ran last. *)
SavedStdout ==
    CASE Ran(3) -> Stdout3 [] RanPPP(2) -> PPPStdout2
      [] Ran(6) -> Stdout6 [] Ran(9) -> Stdout9 [] Ran(15) -> Stdout15
      [] Ran(19) -> Stdout19 [] Ran(23) -> Stdout23 [] Ran(31) -> Stdout31
      [] Ran(36) -> Stdout36
      [] RanPPP(8) -> PPPStdout8 [] RanPPP(9) -> PPPStdout9 [] RanPPP(10) -> PPPStdout10
      [] OTHER -> << >>

SavedLatex ==
    CASE Ran(4) -> Latex4 [] Ran(6) -> Latex6 [] Ran(7) -> Latex7 [] Ran(10) -> Latex10
      [] Ran(11) -> Latex11 [] Ran(12) -> Latex12 [] Ran(16) -> Latex16
      [] Ran(17) -> Latex17 [] Ran(20) -> Latex20 [] Ran(21) -> Latex21
      [] Ran(24) -> Latex24 [] Ran(32) -> Latex32 [] Ran(35) -> Latex35
      [] Ran(37) -> Latex37
      [] RanPPP(5) -> PPPLatex5
      [] RanPPP(8) -> PPPStdout8 [] RanPPP(9) -> PPPStdout9 [] RanPPP(10) -> PPPStdout10
      [] OTHER -> << >>

(* Two lists of typeset reactions with the same names and the same net      *)
(* stoichiometry (the order of the species within a side may differ).       *)
SameNet(A, B) ==
    /\ Len(A) = Len(B)
    /\ \A i \in DOMAIN A :
         /\ A[i].name = B[i].name
         /\ \A x \in EqnSpecies(A[i]) \cup EqnSpecies(B[i]) : EqnCoef(A[i], x) = EqnCoef(B[i], x)

(* The outputs of the cell that ran last are the outputs saved in the notebook. *)
AsSaved == stdout = SavedStdout /\ SameNet(latex, SavedLatex)

(* Net production of species x by a printed pathway (a list of <<flow, reaction>>). *)
Flow(rec, p, x) == Sum([k \in DOMAIN p |-> p[k][1] * rec.N[<<x, p[k][2]>>]], DOMAIN p)

(* The same through a list of typeset reactions. *)
FlowShown(D, p, x) ==
    Sum([k \in DOMAIN p |->
           p[k][1] * EqnCoef(D[CHOOSE j \in DOMAIN D : D[j].name = p[k][2]], x)], DOMAIN p)

(* A typeset reaction has exactly the net stoichiometry net, a list of <<n, species>>. *)
HasNet(e, net) ==
    \A x \in EqnSpecies(e) \cup {net[k][2] : k \in DOMAIN net} :
        EqnCoef(e, x) = SideCoef(net, x)

(* C1: after each sanity check of ModularEcoli (GLY, TCA, PyrTCA, ETC, ATP) *)
(* the matrix recreated from the generated bond graph equals s0['N'] entry  *)
(* for entry, with the same species and reaction order, and the error is 0. *)
SanityChecked == Did("model") /\ Last.from = "s0"

Listed ==
    (IF Last.closed THEN << {} >> ELSE << >>)
    \o (IF Last.printSc0 THEN << Range(chemostats0) >> ELSE << >>)
    \o << Range(chemostats) >>

ChemostatBalance ==
    /\ Did("statify") =>
         /\ stdout = SavedStdout
         /\ Len(stdout) = Len(Listed)
         /\ \A k \in DOMAIN stdout : \A i \in DOMAIN stdout[k] :
              \A x \in Range(s.species) \ Listed[k] : Flow(s, stdout[k][i], x) = 0
         /\ Last.path => \A i \in DOMAIN latex : EqnSpecies(latex[i]) \subseteq Range(chemostats)
    /\ Did("path") =>
         \A i \in DOMAIN latex :
            EqnSpecies(latex[i]) \subseteq
                Range(IF Last.from = "sc0" THEN chemostats0 ELSE chemostats)
    /\ Did("Pathway") =>
         /\ sc.chemostats = chemostats
         /\ \A i \in DOMAIN sc.K : \A x \in Range(s.species) \ Range(chemostats) :
              Production(s, sc.K[i], x) = 0
         /\ \A i \in DOMAIN latex : EqnSpecies(latex[i]) \subseteq Range(chemostats)

ChemostatBalanceWitness ==
    /\ Ran(36) /\ Len(stdout[1]) = 3
    /\ Flow(s, stdout[1][3], "O2") = -12 /\ Flow(s, stdout[1][3], "NADH") = 0

(* C3: a pathway computed by Pathway(S, chemostats, flowstats) has no flow  *)
(* in a reaction of flowstats: none in PGI or TKT2 for 'R5P and NADPH       *)
(* generation', none in G6PDH2R for 'R5P generation'.                       *)
FlowstatZeroFlow ==
    Did("Pathway") =>
        /\ sc.flowstats = flowstats
        /\ \A i \in DOMAIN sc.K : \A r \in Range(flowstats) : sc.K[i][r] = 0
        /\ RanPPP(8) => \A i \in DOMAIN sc.K : sc.K[i]["PGI"] = 0 /\ sc.K[i]["TKT2"] = 0
        /\ RanPPP(9) => \A i \in DOMAIN sc.K : sc.K[i]["G6PDH2R"] = 0

FlowstatZeroFlowWitness ==
    /\ RanPPP(9) /\ flowstats = <<"G6PDH2R">>
    /\ Len(sc.K) = 1 /\ sc.K[1]["PGI"] = -5 /\ sc.K[1]["G6PDH2R"] = 0

(* C4: in ModularEcoli the i-th pathway reaction typeset from st.path(s,sc) *)
(* is the sum of the displayed module reactions weighted by the flows of    *)
(* the i-th pathway printed by st.sprintp(sc).                              *)
(* The listing of sc printed before the pathway reactions of cell n, and    *)
(* the display of the reactions of the module analysed.                     *)
Printed ==
    CASE Ran(6) -> Stdout6[1] [] Ran(11) -> Stdout9[3] [] Ran(16) -> Stdout15[3]
      [] Ran(20) -> Stdout19[2] [] Ran(24) -> Stdout23[2] [] Ran(32) -> Stdout31[1]
      [] Ran(37) -> Stdout36[1]

Displayed ==
    CASE Ran(6) -> Latex4 [] Ran(11) -> Latex7 [] Ran(16) -> Latex12
      [] Ran(20) -> Latex17 [] Ran(24) -> Latex21 [] Ran(32) -> Latex4 \o Latex12
      [] Ran(37) -> Latex35

PathShown == \E n \in {6, 11, 16, 20, 24, 32, 37} : Ran(n)

PathIsWeightedSum ==
    PathShown =>
        /\ Printed = sprintp(sc, Last.removeSingle)
        /\ Len(latex) = Len(Printed)
        /\ \A i \in DOMAIN latex :
             /\ latex[i].name = "pr" \o ToString(i)
             /\ \A x \in Range(s.species) \cup EqnSpecies(latex[i]) :
                  /\ EqnCoef(latex[i], x) = FlowShown(Displayed, Printed[i], x)
                  /\ x \in Range(s.species) /\ EqnCoef(latex[i], x) = Flow(s, Printed[i], x)
        /\ SameNet(latex, SavedLatex)

PathIsWeightedSumWitness ==
    /\ Ran(32) /\ Len(latex) = 4 /\ Len(Printed[4]) = 21
    /\ EqnCoef(latex[4], "FOR") = 2 /\ FlowShown(Displayed, Printed[4], "FOR") = 2

(* C5: in Met with chemostats GLCD_E, CO2, O2, ADP, ATP, H2O, PI, H the     *)
(* pathway 2 GLCPTS ... + 20 NADH16 + 12 CYTBD + 27 ATPS4R has the net      *)
(* reaction 2 GLCD_E + 12 O2 + 35 ADP + 35 PI + 35 H <> 12 CO2 + 35 ATP +   *)
(* 47 H2O: per GLCD_E, 6 O2 give 17.5 ATP with 6 more H2O and 6 CO2.        *)
GlucoseOxidation ==
    << <<-2, "GLCD_E">>, <<-12, "O2">>, <<-35, "ADP">>, <<-35, "PI">>, <<-35, "H">>,
       <<12, "CO2">>, <<35, "ATP">>, <<47, "H2O">> >>

MetYield ==
    Ran(37) =>
        /\ Range(chemostats) = {"GLCD_E", "CO2", "O2", "ADP", "ATP", "H2O", "PI", "H"}
        /\ Len(sc.K) = 3 /\ Len(latex) = 3
        /\ sprintp(sc, FALSE)[3] = Stdout36[1][3]
        /\ {<<2, "GLCPTS">>, <<20, "NADH16">>, <<12, "CYTBD">>, <<27, "ATPS4R">>}
              \subseteq Range(Stdout36[1][3])
        /\ HasNet(latex[3], GlucoseOxidation)
        /\ HasNet(Latex37[3], GlucoseOxidation)
        /\ \A x \in Range(s.species) :
              Production(s, sc.K[3], x) = SideCoef(GlucoseOxidation, x)
        /\ 2 * EqnCoef(latex[3], "ATP") = 35 * (-EqnCoef(latex[3], "GLCD_E"))
        /\ EqnCoef(latex[3], "O2") = 6 * EqnCoef(latex[3], "GLCD_E")
        /\ EqnCoef(latex[3], "CO2") = 6 * (-EqnCoef(latex[3], "GLCD_E"))
        /\ EqnCoef(latex[3], "H2O") - EqnCoef(latex[3], "ATP") = 6 * (-EqnCoef(latex[3], "GLCD_E"))

MetYieldWitness ==
    /\ Ran(37) /\ Len(latex) = 3
    /\ EqnCoef(latex[3], "ATP") = 35 /\ EqnCoef(latex[3], "GLCD_E") = -2
    /\ sc.K[3]["ATPS4R"] = 27

(* C6: Met with these chemostats has three pathways (futile cycle, null     *)
(* cycle, glucose oxidation through PDH) and no balanced flow through PFL;  *)
(* GlyTCA, where FOR, NAD, NADH, Q8 and Q8H2 are chemostats, has four, one  *)
(* through PDH and one through PFL.                                         *)
Through(w, r) == w[r] # 0

MetHasNoPFLPathway ==
    /\ Ran(36) =>
         /\ Len(sc.K) = 3
         /\ stdout[1][1] = << <<1, "PFK">>, <<1, "FBP">> >>
         /\ stdout[1][2] = << <<-1, "FRD7">>, <<1, "SUCDI">> >>
         /\ Through(sc.K[3], "PDH") /\ Through(sc.K[3], "GLCPTS")
         /\ \A i \in DOMAIN sc.K : ~ Through(sc.K[i], "PFL")
         \* FOR is made by PFL alone and is not held fixed: a flow through
         \* PFL leaves FOR unbalanced whatever the other flows are.
         /\ "FOR" \in Range(s.species) \ Range(chemostats)
         /\ \A r \in Range(s.reaction) : s.N[<<"FOR", r>>] # 0 <=> r = "PFL"
    /\ Ran(31) =>
         /\ {"FOR", "NAD", "NADH", "Q8", "Q8H2"} \subseteq Range(chemostats)
         /\ Len(sc.K) = 4
         /\ Through(sc.K[3], "PDH") /\ ~ Through(sc.K[3], "PFL")
         /\ Through(sc.K[4], "PFL") /\ ~ Through(sc.K[4], "PDH")
         /\ \A i \in 1..2 : ~ Through(sc.K[i], "PDH") /\ ~ Through(sc.K[i], "PFL")

MetHasNoPFLPathwayWitness ==
    /\ Ran(36) /\ Len(sc.K) = 3 /\ sc.K[3]["PDH"] = 4 /\ sc.K[3]["PFL"] = 0
    /\ s.N[<<"FOR", "PFL">>] = 1

(* C7: the ETC pathway 2 NADH16 + CYTBD with chemostats NADH, NAD, O2, H2O, *)
(* H, H_E has the net reaction 12 H + 2 NADH + O2 <> 2 H2O + 10 H_E + 2 NAD *)
(* (10 protons pumped); Q8 and Q8H2 are balanced.                           *)
ETCNet ==
    << <<-12, "H">>, <<-2, "NADH">>, <<-1, "O2">>, <<2, "H2O">>, <<10, "H_E">>, <<2, "NAD">> >>

ETCPumpsTen ==
    Ran(20) =>
        /\ chemostats = <<"NADH", "NAD", "O2", "H2O", "H", "H_E">>
        /\ sprintp(sc, FALSE) = << << <<2, "NADH16">>, <<1, "CYTBD">> >> >>
        /\ Len(latex) = 1
        /\ HasNet(latex[1], ETCNet)
        /\ HasNet(Latex20[1], ETCNet)
        /\ \A x \in Range(s.species) : Production(s, sc.K[1], x) = SideCoef(ETCNet, x)
        /\ {"Q8", "Q8H2"} \subseteq Range(s.species) \ EqnSpecies(latex[1])
        /\ s.N[<<"Q8", "NADH16">>] # 0 /\ s.N[<<"Q8H2", "CYTBD">>] # 0

ETCPumpsTenWitness ==
    /\ Ran(20) /\ Len(latex) = 1
    /\ EqnCoef(latex[1], "H_E") = 10 /\ EqnCoef(latex[1], "O2") = -1
    /\ Production(s, sc.K[1], "Q8") = 0

ATPaseNet ==
    << <<-1, "ADP">>, <<-4, "H_E">>, <<-1, "PI">>, <<1, "ATP">>, <<3, "H">>, <<1, "H2O">> >>

Hydrolysis ==
    << <<-1, "ATP">>, <<-1, "H2O">>, <<1, "ADP">>, <<1, "PI">>, <<1, "H">> >>

FutileCycle == << <<1, "PFK">>, <<1, "FBP">> >>

FutileCycleNet ==
    /\ (Ran(6) \/ Ran(31) \/ Ran(36)) =>
         /\ s.name \in {"GLY_abg", "GlyTCA_abg", "Met"}
         /\ Len(stdout[1]) > 0 /\ stdout[1][1] = FutileCycle
         /\ {"F6P", "FDP"} \subseteq Range(s.species)
         /\ \A x \in Range(s.species) : Flow(s, FutileCycle, x) = SideCoef(Hydrolysis, x)
    /\ (Ran(6) \/ Ran(32) \/ Ran(37)) =>
         /\ Len(latex) > 0 /\ HasNet(latex[1], Hydrolysis)
         /\ HasNet(SavedLatex[1], Hydrolysis)

FutileCycleNetWitness ==
    /\ Ran(36) /\ s.name = "Met" /\ stdout[1][1] = FutileCycle
    /\ Flow(s, FutileCycle, "ATP") = -1 /\ Flow(s, FutileCycle, "F6P") = 0

(* C10: with FRD7 negated at extraction FRD7 and SUCDI have the same        *)
(* stoichiometry, so the null cycle -FRD7 + SUCDI produces nothing of any   *)
(* species and its pathway reaction is empty, in TCA, PyrTCA, GlyTCA, Met.  *)
NullCycle == << <<-1, "FRD7">>, <<1, "SUCDI">> >>

(* The position of the null cycle in a listing, 0 if it is not listed. *)
NullCycleAt(P) ==
    IF \E i \in DOMAIN P : P[i] = NullCycle
    THEN CHOOSE i \in DOMAIN P : P[i] = NullCycle ELSE 0

NullCycleIsEmpty ==
    /\ (sm # None /\ nb = "ModularEcoli") =>
         /\ \A x \in Range(sm.species) : sm.N[<<x, "FRD7">>] = sm.N[<<x, "SUCDI">>]
    /\ (Ran(9) \/ Ran(15) \/ Ran(31) \/ Ran(36)) =>
         /\ s.name \in {"TCA_abg", "PyrTCA_abg", "GlyTCA_abg", "Met"}
         /\ \A k \in DOMAIN stdout : NullCycleAt(stdout[k]) > 0
         /\ \A x \in Range(s.species) :
              /\ s.N[<<x, "FRD7">>] = s.N[<<x, "SUCDI">>]
              /\ Flow(s, NullCycle, x) = 0
    /\ (Ran(10) \/ Ran(11) \/ Ran(16) \/ Ran(32) \/ Ran(37)) =>
         LET P == sprintp(IF Last.from = "sc0" THEN sc0 ELSE sc, Last.removeSingle)
             i == NullCycleAt(P)
         IN  /\ i > 0 /\ i <= Len(latex)
             /\ latex[i].lhs = << >> /\ latex[i].rhs = << >>
             /\ SavedLatex[i].lhs = << >> /\ SavedLatex[i].rhs = << >>

NullCycleIsEmptyWitness ==
    /\ Ran(37) /\ s.name = "Met" /\ Len(latex) = 3
    /\ NullCycleAt(sprintp(sc, TRUE)) = 2 /\ latex[2] = Eqn("pr2", << >>, << >>)

(* C11: adding chemostats never removes a pathway: a pathway of             *)
(* st.statify(s, A), the closed system included, is a pathway of            *)
(* st.statify(s, B) when A is part of B: it leaves every species outside B  *)
(* balanced, and B has at least as many pathways.  In the listings of TCA   *)
(* and PyrTCA the pathways printed without chemostats are printed again     *)
(* with the basic chemostats, and those again with the full list.           *)
(* The lists A taken from the list B of the cell: its heads and its tails. *)
Parts(B) == {SubSeq(B, 1, k) : k \in 0..Len(B)} \cup {SubSeq(B, k, Len(B)) : k \in 1..Len(B)}

IsPathwayOf(rec, w, B, F) ==
    /\ \A x \in Range(rec.species) \ Range(B) : Production(rec, w, x) = 0
    /\ \A r \in Range(F) : w[r] = 0

TCACycle ==
    << <<1, "CS">>, <<1, "ACONTA">>, <<1, "ACONTB">>, <<1, "ICDHYR">>, <<1, "AKGDH">>,
       <<1, "SUCOAS">>, <<1, "FRD7">>, <<1, "FUM">>, <<1, "MDH">>, <<1, "NADTRHD">> >>

TCANet ==
    << <<-1, "ACCOA">>, <<-1, "ADP">>, <<-2, "H2O">>, <<-3, "NAD">>, <<-1, "PI">>,
       <<-1, "Q8">>, <<1, "ATP">>, <<2, "CO2">>, <<1, "COA">>, <<2, "H">>, <<3, "NADH">>,
       <<1, "Q8H2">> >>

Shared(sys) ==
    {x \in UNION {Range(sys.components[i].Ce) : i \in DOMAIN sys.components} :
        \E i, j \in DOMAIN sys.components :
            i # j /\ x \in Range(sys.components[i].Ce) /\ x \in Range(sys.components[j].Ce)}

ShownSpecies(D) == UNION {EqnSpecies(D[i]) : i \in DOMAIN D}

CommonIsShared ==
    /\ Did("unify") =>
         LET sys == IF Last.var = "GlyTCA" THEN GlyTCA ELSE Met
         IN  /\ sys.common = Range(Last.common)
             /\ sys.common = Shared(sys)
             /\ Cardinality(sys.common) = Len(Last.common)
    /\ Ran(26) =>
         /\ Len(GlyTCA.components) = 2
         /\ GlyTCA.components[1].name = "GLY_abg" /\ GlyTCA.components[2].name = "PyrTCA_abg"
         /\ {"PYR", "ATP", "ADP", "PI", "H", "NAD", "NADH", "H2O"}
              = Range(GlyTCA.components[1].Ce) \cap Range(GlyTCA.components[2].Ce)
         /\ Range(Cell26.common) = ShownSpecies(Latex4) \cap ShownSpecies(Latex12)
    /\ Ran(34) =>
         /\ Len(Met.components) = 3
         /\ [i \in 1..3 |-> Met.components[i].name] = <<"GlyTCA_abg", "ETC_abg", "ATP_abg">>
         /\ Range(Cell34.common)
              = ((ShownSpecies(Latex4) \cup ShownSpecies(Latex12)) \cap ShownSpecies(Latex17))
                \cup ((ShownSpecies(Latex4) \cup ShownSpecies(Latex12)) \cap ShownSpecies(Latex21))
                \cup (ShownSpecies(Latex17) \cap ShownSpecies(Latex21))
    /\ (Did("stoich") /\ Last.var \in {"GlyTCA", "Met"}) =>
         LET sys == IF Last.var = "GlyTCA" THEN GlyTCA ELSE Met
         IN  Range(s.species)
               = UNION {Range(sys.components[i].Ce) : i \in DOMAIN sys.components}

CommonIsSharedWitness ==
    /\ Ran(34) /\ Met.common = Shared(Met) /\ Cardinality(Met.common) = 10
    /\ "H_E" \in Range(Met.components[2].Ce) \cap Range(Met.components[3].Ce)
    /\ "H_E" \notin Range(Met.components[1].Ce)

(* C14: every coefficient of every extracted sub-network and of the GlyTCA  *)
(* and Met composites is an integer and so is every pathway flow: a         *)
(* reaction with a non-integer coefficient is rescaled at extraction (CYTBD *)
(* by 2.0: the coefficient of O2 becomes 1, the others double) and the      *)
(* rescaling is printed.                                                    *)
(* The reaction of the textbook model named r. *)
Textbook(r) == textbook[CHOOSE i \in DOMAIN textbook : textbook[i].name = r]

(* Entry N[x, r] is exactly m times the coefficient of x in the reaction rx, *)
(* which is EqnCoef(rx, x) / rx.den, up to the direction of the reaction.    *)
IsRescaled(n, rx, x, m) == Abs(n) * rx.den = m * Abs(EqnCoef(rx, x))

Bound(v) == v # None

StepOrder ==
    /\ Running("choose") => Bound(sm)
    /\ (Bound(s0) \/ Bound(sGlyPPP)) => Bound(sm)
    /\ (Running("model") /\ cell.from = "s0") => Bound(s0)
    /\ Running("import") => cell.name \in DOMAIN files
    /\ \A X \in DOMAIN modules : X \in DOMAIN files /\ modules[X] = files[X]
    /\ (Did("model") /\ Last.from = "s0") =>
         /\ Last.name \in DOMAIN files /\ Last.name \in DOMAIN modules
         /\ files[Last.name] = model(s0)
         /\ s = Relabel(stoich(modules[Last.name]), s.reaction)
    /\ (Bound(S) /\ nb = "EcoliPPP") =>
         /\ "GlyPPP_abg" \in DOMAIN modules
         /\ files["GlyPPP_abg"] = model(sGlyPPP)
         /\ S = stoich(modules["GlyPPP_abg"])
    /\ Running("new") => \A i \in DOMAIN cell.add : cell.add[i] \in DOMAIN modules
    /\ Running("unify") => Bound(IF cell.var = "GlyTCA" THEN GlyTCA ELSE Met)
    /\ Running("stoich") =>
         LET sys == IF cell.var = "GlyTCA" THEN GlyTCA ELSE Met
         IN  Bound(sys) /\ IsComposite(sys) /\ sys.common # {}
    /\ Running("statify") => Bound(s)
    /\ Running("Pathway") => Bound(S)
    /\ Running("path") =>
         LET from == IF cell.from = "sc0" THEN sc0 ELSE sc
         IN  Bound(s) /\ Bound(from) /\ from.N = s.N /\ from.name = s.name
    /\ (Bound(sp) => Bound(sc)) /\ (Bound(sp0) => Bound(sc0))
    /\ Did("path") =>
         LET from == IF Last.from = "sc0" THEN sc0 ELSE sc
             to == IF Last.from = "sc0" THEN sp0 ELSE sp
         IN  /\ Bound(to) /\ to = path(s, from, Last.removeSingle)
             /\ latex = sprintrl(to)
    /\ Did("Pathway") =>
         /\ Bound(sp) /\ sp = path(s, sc, TRUE)
         /\ stdout = sprintrl(sp) /\ latex = sprintrl(sp)

StepOrderWitness ==
    /\ Ran(37) /\ Bound(sm) /\ Bound(Met) /\ Met.common # {}
    /\ "GlyTCA_abg" \in DOMAIN modules /\ s.name = "Met" /\ sc.name = "Met"
    /\ Len(sp.reaction) = 3 /\ latex = sprintrl(sp)
====
